---------------------------- MODULE Spec2Model ----------------------------
(***************************************************************************)
(* Law Firm Agency Detector (src/app.py): URL normalisation, signature     *)
(* detection over the signal texts of a fetched page, and the batch scan   *)
(* loop that turns per-URL outcomes into report rows.                      *)
(*                                                                         *)
(* Python str values are TLA+ strings; Len, \o and SubSeq act on them      *)
(* character by character.  A Python list or an insertion-ordered dict is  *)
(* a sequence.                                                             *)
(***************************************************************************)
EXTENDS Naturals, Sequences, FiniteSets, TLC

VARIABLES
    \* ---- run_scan (src/app.py:102-149) ----
    urls,        \* the list `urls` run_scan iterates over
    i,           \* loop counter of enumerate(urls, start=1); 0 before the loop
    full_url,    \* normalize_url(url) of the current iteration
    r,           \* outcome of requests.get in the current iteration
    results,     \* the list `results` of row dicts
    prog,        \* calls made on the progress bar, as <<i, len(urls)>>
    requests,    \* GET requests issued, as <<i, full_url>>
    detects,     \* iterations in which detect_agency was called
    outcomes,    \* history: what the network answered in each iteration
    starts,      \* history: len(results) when each iteration began
    pc,          \* position of run_scan
    \* ---- normalize_url called on its own (src/app.py:50-56) ----
    n_raw, n_out, n_again, n_pc,
    \* ---- detect_agency called on its own (src/app.py:58-100) ----
    d_html, d_registry, d_full_text, d_evidence, d_pc

scanVars == <<urls, i, full_url, r, results, prog, requests, detects,
              outcomes, starts, pc>>
normVars == <<n_raw, n_out, n_again, n_pc>>
detVars  == <<d_html, d_registry, d_full_text, d_evidence, d_pc>>
vars     == <<scanVars, normVars, detVars>>

---------------------------------------------------------------------------
(* Bounds of the model *)

MaxParts == 3    \* pieces a raw URL handed to normalize_url is built from
MaxNodes == 2    \* nodes of a parsed document handed to detect_agency
MaxUrls  == 3    \* length of the URL list of one scan

---------------------------------------------------------------------------
(* Python str operations *)

Char(s, k) == SubSeq(s, k, k)

Whitespace == {" ", "\t", "\n"}

IsSpace(c) == c \in Whitespace

RECURSIVE lstrip(_)
lstrip(s) ==
    IF s = "" THEN ""
    ELSE IF IsSpace(Char(s, 1)) THEN lstrip(SubSeq(s, 2, Len(s)))
    ELSE s

RECURSIVE rstrip(_)
rstrip(s) ==
    IF s = "" THEN ""
    ELSE IF IsSpace(Char(s, Len(s))) THEN rstrip(SubSeq(s, 1, Len(s) - 1))
    ELSE s

\* str.strip()
strip(s) == rstrip(lstrip(s))

\* str.startswith(tuple of prefixes)
startswith(s, prefixes) ==
    \E p \in prefixes : Len(p) <= Len(s) /\ SubSeq(s, 1, Len(p)) = p

\* the `in` operator on two str values: sub in s
contains(s, sub) ==
    \E k \in 0 .. Len(s) : k + Len(sub) <= Len(s) /\ SubSeq(s, k + 1, k + Len(sub)) = sub

UpperAlpha == "ABCDEFGHIJKLMNOPQRSTUVWXYZ"
LowerAlpha == "abcdefghijklmnopqrstuvwxyz"

LowerChar(c) ==
    IF \E k \in 1 .. 26 : Char(UpperAlpha, k) = c
    THEN Char(LowerAlpha, CHOOSE k \in 1 .. 26 : Char(UpperAlpha, k) = c)
    ELSE c

\* str.lower()
RECURSIVE lower(_)
lower(s) ==
    IF s = "" THEN "" ELSE LowerChar(Char(s, 1)) \o lower(SubSeq(s, 2, Len(s)))

\* sep.join(list)
RECURSIVE join(_, _)
join(sep, list) ==
    IF list = << >> THEN ""
    ELSE IF Len(list) = 1 THEN list[1]
    ELSE list[1] \o sep \o join(sep, Tail(list))

Digits == "0123456789"

\* str(n) of a non-negative int, as the f-string of line 143 formats it
RECURSIVE str(_)
str(n) ==
    IF n < 10 THEN Char(Digits, n + 1)
    ELSE str(n \div 10) \o Char(Digits, (n % 10) + 1)

---------------------------------------------------------------------------
(* normalize_url, src/app.py:50-56 *)

UrlSchemes == {"http://", "https://"}

normalize_url_NoStrip(url) ==
    IF url = "" THEN ""
    ELSE IF ~startswith(url, UrlSchemes) THEN "http://" \o url
    ELSE url

normalize_url_HttpOnly(url) ==
    LET u == strip(url) IN
    IF u = "" THEN ""
    ELSE IF ~startswith(u, {"http://"}) THEN "http://" \o u
    ELSE u

normalize_url(url) ==
    LET u == strip(url) IN
    IF u = "" THEN ""
    ELSE IF ~startswith(u, UrlSchemes) THEN "http://" \o u
    ELSE u

---------------------------------------------------------------------------
(* AGENCIES, src/app.py:28-45: a dict literal, iterated in insertion order *)

Entry(agency, signatures) == [agency |-> agency, signatures |-> signatures]

AGENCIES == <<
    Entry("Hennessey Digital", <<"hennessey">>),
    Entry("Scorpion", <<"scorpion", "scorpioncms">>),
    Entry("LawRank", <<"lawrank">>),
    Entry("iLawyerMarketing", <<"ilawyermarketing">>),
    Entry("Elite Legal Marketing", <<"elitelegalmarketing">>),
    Entry("Juris Digital", <<"jurisdigital">>),
    Entry("Justia", <<"justia">>),
    Entry("Nifty Marketing", <<"niftymarketing">>),
    Entry("On The Map Marketing", <<"onthemapmarketing">>),
    Entry("FindLaw", <<"findlaw", "powered by findlaw">>),
    Entry("Thomson Reuters", <<"thomsonreuters", "thomson reuters">>),
    Entry("Martindale", <<"martindale", "martindale-avvo", "martindale.com">>),
    Entry("Foster Web Marketing", <<"fosterwebmarketing", "fwm">>),
    Entry("Triple Digital", <<"tripledigital", "tripledigitalseo">>),
    Entry("EverConvert", <<"everconvert">>),
    Entry("MeanPug", <<"meanpug", "meanpug.com">>) >>

---------------------------------------------------------------------------
(* detect_agency, src/app.py:58-100 *)

(* The tree BeautifulSoup(html, "html.parser") builds is a sequence of     *)
(* nodes in document order.  A node has a tag ("#comment" for a Comment),  *)
(* the text strings below it, and the attributes content, src and href.    *)
(* An attribute that is absent (tag.get gives None) is None; the code only *)
(* tests such a value for truth, where None and "" behave alike.           *)
None == ""

Node(tag, strings, content, src, href) ==
    [tag |-> tag, strings |-> strings, content |-> content, src |-> src, href |-> href]

Truthy(s) == s # ""

\* a or b
Or(a, b) == IF Truthy(a) THEN a ELSE b

\* soup.find_all(tags): the nodes with one of the tags, in document order
find_all(soup, tags) == SelectSeq(soup, LAMBDA n : n.tag \in tags)

\* tag.get_text(" ", strip=True): the stripped, non-empty strings, joined
get_text(node) ==
    LET stripped == [k \in 1 .. Len(node.strings) |-> strip(node.strings[k])]
    IN  join(" ", SelectSeq(stripped, Truthy))

\* lines 66-69: the first footer element, if any
footer_texts(soup) ==
    LET footers == find_all(soup, {"footer"})
    IN  IF footers # << >> THEN << get_text(footers[1]) >> ELSE << >>

\* lines 72-75
meta_texts(soup) ==
    LET metas == find_all(soup, {"meta"})
        contents == [k \in 1 .. Len(metas) |-> metas[k].content]
    IN  SelectSeq(contents, Truthy)

\* lines 78-79: str(comment) of every Comment
comment_texts(soup) ==
    LET comments == find_all(soup, {"#comment"})
    IN  [k \in 1 .. Len(comments) |-> join("", comments[k].strings)]

\* lines 82-85
asset_texts(soup) ==
    LET tags == find_all(soup, {"script", "link", "img"})
        srcs == [k \in 1 .. Len(tags) |-> Or(tags[k].src, tags[k].href)]
    IN  SelectSeq(srcs, Truthy)

\* lines 64-87: the search corpus
full_text_of(soup) ==
    lower(join(" ", footer_texts(soup) \o meta_texts(soup)
                    \o comment_texts(soup) \o asset_texts(soup)))

AssetTokens == <<".js", ".css", "cdn", ".png", ".jpg", ".svg">>

Range(list) == {list[k] : k \in 1 .. Len(list)}

\* sorted(set(kinds)); kinds only ever holds "asset" and "text"
sorted_set(kinds) == SelectSeq(<<"asset", "text">>, LAMBDA x : x \in Range(kinds))

kinds_of_AssetOrText(full_text) ==
    IF \E k \in 1 .. Len(AssetTokens) : contains(full_text, AssetTokens[k])
    THEN <<"asset">> ELSE <<"text">>

\* lines 93-97
kinds_of(full_text) ==
    LET kinds0 == << >>
        kinds1 == IF \E k \in 1 .. Len(AssetTokens) : contains(full_text, AssetTokens[k])
                  THEN Append(kinds0, "asset") ELSE kinds0
        kinds2 == Append(kinds1, "text")
    IN  sorted_set(kinds2)

\* evidence[agency] = methods, on an insertion-ordered dict
dict_set(d, agency, methods) ==
    IF \E k \in 1 .. Len(d) : d[k].agency = agency
    THEN [k \in 1 .. Len(d) |->
             IF d[k].agency = agency THEN [agency |-> agency, methods |-> methods] ELSE d[k]]
    ELSE Append(d, [agency |-> agency, methods |-> methods])

sig_loop_FirstSignatureOnly(evidence, agency, signatures, k, full_text) ==
    IF k > Len(signatures) THEN evidence
    ELSE IF contains(full_text, signatures[k])
         THEN dict_set(evidence, agency, kinds_of(full_text))
         ELSE evidence

\* lines 91-98: the signatures from the k-th on; the first match sets the
\* agency's evidence and breaks
RECURSIVE sig_loop(_, _, _, _, _)
sig_loop(evidence, agency, signatures, k, full_text) ==
    IF k > Len(signatures) THEN evidence
    ELSE IF contains(full_text, signatures[k])
         THEN dict_set(evidence, agency, kinds_of(full_text))
         ELSE sig_loop(evidence, agency, signatures, k + 1, full_text)

\* lines 90-98: the agencies from the a-th on
RECURSIVE agency_loop(_, _, _, _)
agency_loop(evidence, registry, a, full_text) ==
    IF a > Len(registry) THEN evidence
    ELSE agency_loop(
             sig_loop(evidence, registry[a].agency, registry[a].signatures, 1, full_text),
             registry, a + 1, full_text)

\* lines 89-100 over a given registry
match_agencies(registry, full_text) == agency_loop(<< >>, registry, 1, full_text)

detect_agency(html) == match_agencies(AGENCIES, full_text_of(html))

---------------------------------------------------------------------------
(* Inputs *)

\* raw URL strings: up to MaxParts pieces, one after the other
UrlPieces == {" ", "\t", "http://", "https://", "HTTP://", "http:/", "x.com"}

RECURSIVE Concats(_, _)
Concats(pieces, n) ==
    IF n = 0 THEN {""}
    ELSE LET shorter == Concats(pieces, n - 1)
         IN  shorter \cup {s \o p : s \in shorter, p \in pieces}

RawUrls == Concats(UrlPieces, MaxParts)

\* nodes a parsed page is made of
NodePool == {
    Node("footer", <<" Powered by ", "Scorpion ">>, None, None, None),
    Node("footer", << >>, None, None, None),
    Node("meta", << >>, "Thomson", None, None),
    Node("meta", << >>, "Reuters and FindLaw", None, None),
    Node("meta", << >>, None, None, None),
    Node("#comment", <<" built by LawRank ">>, None, None, None),
    Node("script", << >>, None, "https://cdn.example.com/app.js", None),
    Node("script", <<"var fwm = 1;">>, None, None, None),
    Node("link", << >>, None, None, "/themes/meanpug.com/style.css"),
    Node("img", << >>, None, "/img/Logo.PNG", "/justia"),
    Node("img", << >>, None, "/hennessey/photo", None),
    Node("p", <<"site by scorpion.js">>, None, None, None) }

RECURSIVE Pages(_)
Pages(n) ==
    IF n = 0 THEN {<< >>}
    ELSE LET shorter == Pages(n - 1)
         IN  shorter \cup {Append(d, x) : d \in shorter, x \in NodePool}

\* a registry with every agency's signatures in the opposite order
Reversed(registry) ==
    [a \in 1 .. Len(registry) |->
        LET sigs == registry[a].signatures
        IN  Entry(registry[a].agency, [k \in 1 .. Len(sigs) |-> sigs[Len(sigs) + 1 - k]])]

ReversedSignatures == Reversed(AGENCIES)

\* a registry as a test would inject it: two agencies share a signature
SmallRegistry == <<
    Entry("B", <<"zzz", "scorpion">>),
    Entry("A", <<"scorpion", "lawrank", "cdn">>),
    Entry("C", <<"Scorpion">>) >>

Registries == {AGENCIES, ReversedSignatures, SmallRegistry}

\* what requests.get can do: raise an exception e with str(e) = message, or
\* return a response r with r.status_code and r.text.  r.text is the page
\* it parses to; the empty str is the page without nodes.
Raise(message) ==
    [kind |-> "raise", message |-> message, status_code |-> 0, text |-> << >>]

Response(status_code, text) ==
    [kind |-> "response", message |-> "", status_code |-> status_code, text |-> text]

NoAnswer == [kind |-> "none", message |-> "", status_code |-> 0, text |-> << >>]

PlainPage == << Node("p", <<"Smith & Jones, attorneys at law">>, None, None, None) >>

ScorpionPage == << Node("footer", <<"Powered by Scorpion">>, None, None, None) >>

ThreeAgencyPage == <<
    Node("meta", << >>, "Powered by FindLaw", None, None),
    Node("#comment", <<" built by LawRank ">>, None, None, None),
    Node("link", << >>, None, None, "/themes/meanpug.com/style.css") >>

Answers == {
    Raise("HTTPConnectionPool(host='example.com', port=80): Read timed out."),
    Raise(""),
    Response(404, PlainPage),
    Response(503, << >>),
    Response(200, << >>),
    Response(200, PlainPage),
    Response(200, ScorpionPage),
    Response(200, ThreeAgencyPage) }

\* the strings of the URL column
ScanUrls == {"", " \t", " scorpion.co"}

RECURSIVE UrlLists(_)
UrlLists(n) ==
    IF n = 0 THEN {<< >>}
    ELSE LET shorter == UrlLists(n - 1)
         IN  shorter \cup {Append(l, u) : l \in shorter, u \in ScanUrls}

---------------------------------------------------------------------------
(* normalize_url called on its own, and again on what it returned *)

NormIdle == n_raw = "" /\ n_out = "" /\ n_again = "" /\ n_pc = "off"
DetIdle  == d_html = << >> /\ d_registry = << >> /\ d_full_text = ""
            /\ d_evidence = << >> /\ d_pc = "off"
ScanIdle == urls = << >> /\ i = 0 /\ full_url = "" /\ r = NoAnswer /\ results = << >>
            /\ prog = << >> /\ requests = << >> /\ detects = << >>
            /\ outcomes = << >> /\ starts = << >> /\ pc = "off"

InitNormalize ==
    /\ n_raw \in RawUrls
    /\ n_out = "" /\ n_again = "" /\ n_pc = "call"
    /\ ScanIdle /\ DetIdle

Normalize ==
    /\ n_pc = "call"
    /\ n_out' = normalize_url(n_raw)
    /\ n_pc' = "again"
    /\ UNCHANGED <<n_raw, n_again, scanVars, detVars>>

NormalizeAgain ==
    /\ n_pc = "again"
    /\ n_again' = normalize_url(n_out)
    /\ n_pc' = "done"
    /\ UNCHANGED <<n_raw, n_out, scanVars, detVars>>

NextNormalize == Normalize \/ NormalizeAgain

SpecNormalize == InitNormalize /\ [][NextNormalize]_vars

---------------------------------------------------------------------------
(* detect_agency called on its own, over a page and a registry *)

InitDetect ==
    /\ d_html \in Pages(MaxNodes)
    /\ d_registry \in Registries
    /\ d_full_text = "" /\ d_evidence = << >> /\ d_pc = "call"
    /\ ScanIdle /\ NormIdle

Detect ==
    /\ d_pc = "call"
    /\ d_full_text' = full_text_of(d_html)
    /\ d_evidence' = match_agencies(d_registry, full_text_of(d_html))
    /\ d_pc' = "done"
    /\ UNCHANGED <<d_html, d_registry, scanVars, normVars>>

NextDetect == Detect

SpecDetect == InitDetect /\ [][NextDetect]_vars

---------------------------------------------------------------------------
(* run_scan, src/app.py:114-149, from `results = []` on *)

Row(url, agency, evidence) ==
    [URL |-> url, AgencyDetected |-> agency, EvidenceType |-> evidence]

empty_url_rows_NoDetail(url) == << Row(url, "Error", "") >>

\* line 121
empty_url_rows(url) == << Row(url, "Error", "Empty URL") >>

hit_rows_FirstHitOnly(url, hits) ==
    IF hits # << >>
    THEN << Row(url, hits[1].agency, join(", ", hits[1].methods)) >>
    ELSE << Row(url, "None", "") >>

\* lines 133-141
hit_rows(url, hits) ==
    IF hits # << >>
    THEN [k \in 1 .. Len(hits) |-> Row(url, hits[k].agency, join(", ", hits[k].methods))]
    ELSE << Row(url, "None", "") >>

http_error_rows_NoDetail(url, status_code) == << Row(url, "Error", "") >>

\* line 143
http_error_rows(url, status_code) == << Row(url, "Error", "HTTP " \o str(status_code)) >>

exception_rows_Swallowed(url, message) == << >>

\* line 145
exception_rows(url, message) == << Row(url, "Error", message) >>

is_ok_StatusOnly(resp) == resp.status_code = 200

\* line 131
is_ok(resp) == resp.status_code = 200 /\ resp.text # << >>

progress_ZeroBased(bar, done, total) == Append(bar, <<done - 1, total>>)

\* prog.progress(i/len(urls), text=f"Scanning... {i}/{len(urls)}")
progress(bar, done, total) == Append(bar, <<done, total>>)

InitScan ==
    /\ urls \in UrlLists(MaxUrls)
    /\ i = 0 /\ full_url = "" /\ r = NoAnswer
    /\ results = << >>
    /\ prog = << >>
    /\ requests = << >> /\ detects = << >> /\ outcomes = << >> /\ starts = << >>
    /\ pc = "for"
    /\ NormIdle /\ DetIdle

\* lines 117-120: the next url, normalised
ForNext ==
    /\ pc = "for" /\ i < Len(urls)
    /\ i' = i + 1
    /\ full_url' = normalize_url(urls[i + 1])
    /\ pc' = IF full_url' = "" THEN "empty" ELSE "get"
    /\ starts' = Append(starts, Len(results))
    /\ outcomes' = Append(outcomes, NoAnswer)
    /\ UNCHANGED <<urls, r, results, prog, requests, detects, normVars, detVars>>

\* line 121
EmptyUrl ==
    /\ pc = "empty"
    /\ results' = results \o empty_url_rows(urls[i])
    /\ pc' = "empty_progress"
    /\ UNCHANGED <<urls, i, full_url, r, prog, requests, detects, outcomes, starts,
                   normVars, detVars>>

\* lines 122-123
EmptyProgress ==
    /\ pc = "empty_progress"
    /\ prog' = progress(prog, i, Len(urls))
    /\ pc' = "for"
    /\ UNCHANGED <<urls, i, full_url, r, results, requests, detects, outcomes, starts,
                   normVars, detVars>>

\* lines 125-130: requests.get returns or raises
Get ==
    /\ pc = "get"
    /\ \E a \in Answers :
          /\ r' = a
          /\ outcomes' = [outcomes EXCEPT ![i] = a]
          /\ pc' = IF a.kind = "raise" THEN "except" ELSE "response"
    /\ requests' = Append(requests, <<i, full_url>>)
    /\ UNCHANGED <<urls, i, full_url, results, prog, detects, starts, normVars, detVars>>

\* lines 131-141
Detected ==
    /\ pc = "response" /\ is_ok(r)
    /\ detects' = Append(detects, i)
    /\ results' = results \o hit_rows(urls[i], detect_agency(r.text))
    /\ pc' = "progress"
    /\ UNCHANGED <<urls, i, full_url, r, prog, requests, outcomes, starts,
                   normVars, detVars>>

\* lines 142-143
HttpError ==
    /\ pc = "response" /\ ~is_ok(r)
    /\ results' = results \o http_error_rows(urls[i], r.status_code)
    /\ pc' = "progress"
    /\ UNCHANGED <<urls, i, full_url, r, prog, requests, detects, outcomes, starts,
                   normVars, detVars>>

\* lines 144-145
Except ==
    /\ pc = "except"
    /\ results' = results \o exception_rows(urls[i], r.message)
    /\ pc' = "progress"
    /\ UNCHANGED <<urls, i, full_url, r, prog, requests, detects, outcomes, starts,
                   normVars, detVars>>

\* line 147
Progress ==
    /\ pc = "progress"
    /\ prog' = progress(prog, i, Len(urls))
    /\ pc' = "for"
    /\ UNCHANGED <<urls, i, full_url, r, results, requests, detects, outcomes, starts,
                   normVars, detVars>>

\* line 149
Return ==
    /\ pc = "for" /\ i = Len(urls)
    /\ pc' = "done"
    /\ UNCHANGED <<urls, i, full_url, r, results, prog, requests, detects, outcomes,
                   starts, normVars, detVars>>

Init == InitScan

Next ==
    \/ ForNext \/ EmptyUrl \/ EmptyProgress \/ Get
    \/ Detected \/ HttpError \/ Except \/ Progress \/ Return

Spec == Init /\ [][Next]_vars

---------------------------------------------------------------------------
(* Vocabulary of the properties, stated without the operators above *)

AllSpace(s) == \A k \in 1 .. Len(s) : SubSeq(s, k, k) \in {" ", "\t", "\n"}

\* t is s without its leading and trailing whitespace, and is not empty
IsTrimOf(t, s) ==
    /\ t # ""
    /\ ~AllSpace(SubSeq(t, 1, 1)) /\ ~AllSpace(SubSeq(t, Len(t), Len(t)))
    /\ \E p \in 0 .. Len(s) :
          /\ p + Len(t) <= Len(s)
          /\ SubSeq(s, p + 1, p + Len(t)) = t
          /\ AllSpace(SubSeq(s, 1, p))
          /\ AllSpace(SubSeq(s, p + Len(t) + 1, Len(s)))

HasPrefix(s, p) == Len(p) <= Len(s) /\ SubSeq(s, 1, Len(p)) = p

\* sub occurs in s as a literal substring
Occurs(sub, s) ==
    \E p \in 0 .. Len(s) : p + Len(sub) <= Len(s) /\ SubSeq(s, p + 1, p + Len(sub)) = sub

Substrings(s) == {SubSeq(s, a, b) : a \in 1 .. Len(s) + 1, b \in 0 .. Len(s)}

---------------------------------------------------------------------------
(* Properties of normalize_url (SpecNormalize) *)

\* C10: normalize_url returns "" for an empty or whitespace-only string, the
\* trimmed string itself when that starts with http:// or https://, and
\* "http://" followed by the trimmed string otherwise; applied to its own
\* result it returns that result unchanged.
C10_Normalize ==
    /\ n_pc \in {"again", "done"} =>
          /\ AllSpace(n_raw) => n_out = ""
          /\ \A t \in Substrings(n_raw) :
                IsTrimOf(t, n_raw) =>
                    n_out = IF HasPrefix(t, "http://") \/ HasPrefix(t, "https://")
                            THEN t ELSE "http://" \o t
    /\ n_pc = "done" => n_again = n_out

\* a padded https URL came back trimmed and without a second prefix
C10_Witness ==
    /\ n_pc = "done"
    /\ n_raw = " https://x.com"
    /\ n_out = "https://x.com"
    /\ n_again = "https://x.com"

---------------------------------------------------------------------------
(* Properties of detect_agency (SpecDetect) *)

EvidenceKeys == {d_evidence[k].agency : k \in 1 .. Len(d_evidence)}

\* the agencies of the registry with a signature occurring in the corpus
MatchedAgencies ==
    {d_registry[a].agency : a \in
        {a \in 1 .. Len(d_registry) :
            \E k \in 1 .. Len(d_registry[a].signatures) :
                Occurs(d_registry[a].signatures[k], d_full_text)}}

\* C7: the keys of the mapping are exactly the agencies with at least one
\* signature occurring in the lowercased corpus, each once; the mapping is
\* the same for the registry with the signatures in the opposite order; it
\* is empty when no signature occurs.
C7_KeySet ==
    d_pc = "done" =>
        /\ \A k \in 1 .. Len(d_full_text) :
              ~Occurs(SubSeq(d_full_text, k, k), "ABCDEFGHIJKLMNOPQRSTUVWXYZ")
        /\ EvidenceKeys = MatchedAgencies
        /\ Cardinality(EvidenceKeys) = Len(d_evidence)
        /\ d_evidence = match_agencies(Reversed(d_registry), d_full_text)
        /\ (MatchedAgencies = {}) => d_evidence = << >>

\* an agency was reported whose first signature does not occur in the corpus
\* and whose later one does, next to another reported agency
C7_Witness ==
    /\ d_pc = "done"
    /\ Len(d_evidence) >= 2
    /\ \E a \in 1 .. Len(d_registry) :
          /\ d_registry[a].agency \in EvidenceKeys
          /\ Len(d_registry[a].signatures) >= 2
          /\ ~Occurs(d_registry[a].signatures[1], d_full_text)

AssetTokenSet == {".js", ".css", "cdn", ".png", ".jpg", ".svg"}

\* C8: every reported agency's evidence kinds hold "text", hold "asset"
\* exactly when the whole corpus contains an asset token, and hold nothing
\* else; so all agencies of one document carry the same kinds.
C8_Kinds ==
    d_pc = "done" =>
        /\ \A k \in 1 .. Len(d_evidence) :
              LET kinds == {d_evidence[k].methods[m] : m \in 1 .. Len(d_evidence[k].methods)}
              IN  /\ "text" \in kinds
                  /\ kinds \subseteq {"asset", "text"}
                  /\ Len(d_evidence[k].methods) = Cardinality(kinds)
                  /\ ("asset" \in kinds) <=> (\E t \in AssetTokenSet : Occurs(t, d_full_text))
        /\ \A j, k \in 1 .. Len(d_evidence) : d_evidence[j].methods = d_evidence[k].methods

\* an agency matched in the footer is tagged "asset" because of a script
\* reference that holds none of its signatures
C8_Witness ==
    /\ d_pc = "done"
    /\ d_registry = AGENCIES
    /\ d_html = << Node("footer", <<" Powered by ", "Scorpion ">>, None, None, None),
                   Node("script", << >>, None, "https://cdn.example.com/app.js", None) >>
    /\ d_evidence = << [agency |-> "Scorpion", methods |-> <<"asset", "text">>] >>

---------------------------------------------------------------------------
(* Properties of run_scan (Spec) *)

N == Len(urls)

\* the rows appended since iteration j began, up to the start of the next
Group(j) ==
    SubSeq(results, starts[j] + 1, IF j < Len(starts) THEN starts[j + 1] ELSE Len(results))

\* iteration j has appended its rows / has also advanced the progress bar
Appended(j) == j < i \/ (j = i /\ pc \in {"progress", "empty_progress", "for", "done"})
Completed(j) == j < i \/ (j = i /\ pc \in {"for", "done"})

Fetched(j) == outcomes[j].kind = "response"
Faulted(j) == outcomes[j].kind = "raise"
Succeeded(j) ==
    Fetched(j) /\ outcomes[j].status_code = 200 /\ outcomes[j].text # << >>

RegistryIndex(agency) ==
    CHOOSE a \in 0 .. Len(AGENCIES) :
        IF \E b \in 1 .. Len(AGENCIES) : AGENCIES[b].agency = agency
        THEN a > 0 /\ AGENCIES[a].agency = agency
        ELSE a = 0

\* C1: when run_scan returns, the rows are N non-empty consecutive groups,
\* the j-th carrying the j-th input URL, and a group depends only on its own
\* URL and on what the network answered for it, not on the URLs before it.
C1_OneGroupPerUrl ==
    pc = "done" =>
        /\ i = N /\ Len(starts) = N /\ Len(outcomes) = N
        /\ (N = 0) => results = << >>
        /\ (N > 0) => starts[1] = 0
        /\ \A j \in 1 .. N :
              /\ starts[j] < (IF j < N THEN starts[j + 1] ELSE Len(results))
              /\ \A k \in 1 .. Len(Group(j)) : Group(j)[k].URL = urls[j]
        /\ \A j, k \in 1 .. N :
              (urls[j] = urls[k] /\ outcomes[j] = outcomes[k]) => Group(j) = Group(k)

\* a fault on the first URL, then the same URL detected twice
C1_Witness ==
    /\ pc = "done" /\ N = 3
    /\ urls[1] = urls[2] /\ urls[2] = urls[3]
    /\ Faulted(1) /\ Succeeded(2) /\ outcomes[3] = outcomes[2]
    /\ Len(Group(1)) = 1 /\ Len(Group(2)) = 3 /\ Len(Group(3)) = 3

\* what the detector returns for each page the network can answer with
DetectorReturn ==
    [page \in {a.text : a \in Answers} |-> detect_agency(page)]

\* C2: after a fetch with status 200 and a non-empty body, the URL's group
\* is one row per agency of the detector's mapping, in registry order with
\* no agency twice, each with that agency's evidence kinds; or the single
\* row "None" when the mapping is empty.  No such group holds an Error row,
\* and none mixes agency rows with a "None" row.
C2_DetectedRows ==
    \A j \in 1 .. i :
        (Appended(j) /\ Succeeded(j)) =>
            LET hits == DetectorReturn[outcomes[j].text]
                g == Group(j)
            IN  IF hits = << >>
                THEN g = << [URL |-> urls[j], AgencyDetected |-> "None", EvidenceType |-> ""] >>
                ELSE /\ Len(g) = Len(hits)
                     /\ \A k \in 1 .. Len(g) :
                           /\ g[k].AgencyDetected \notin {"None", "Error"}
                           /\ RegistryIndex(g[k].AgencyDetected) > 0
                           /\ \E h \in 1 .. Len(hits) :
                                 /\ hits[h].agency = g[k].AgencyDetected
                                 /\ g[k].EvidenceType \in
                                       {"text", "asset, text"}
                                 /\ (g[k].EvidenceType = "asset, text")
                                       <=> (hits[h].methods = <<"asset", "text">>)
                                 /\ (g[k].EvidenceType = "text")
                                       <=> (hits[h].methods = <<"text">>)
                     /\ \A k, l \in 1 .. Len(g) :
                           k < l => RegistryIndex(g[k].AgencyDetected)
                                        < RegistryIndex(g[l].AgencyDetected)

\* a page whose matches occur in the order FindLaw, LawRank, MeanPug gave
\* three rows in registry order
C2_Witness ==
    /\ pc = "done" /\ N >= 1
    /\ outcomes[N].text = ThreeAgencyPage /\ Succeeded(N)
    /\ Len(Group(N)) = 3
    /\ Group(N)[1].AgencyDetected = "LawRank"
    /\ Group(N)[2].AgencyDetected = "FindLaw"
    /\ Group(N)[3].AgencyDetected = "MeanPug"
    /\ N >= 2 /\ Succeeded(1) /\ Group(1)[1].AgencyDetected = "None"

StatusDigits(status_code) ==
    CASE status_code = 200 -> "200"
      [] status_code = 404 -> "404"
      [] status_code = 503 -> "503"

\* C3: a response that is not (200 with a body) gives one Error row whose
\* detail contains the status code; an exception gives one Error row whose
\* detail is its message; the loop goes on; detect_agency is called in
\* exactly the iterations whose response is 200 with a non-empty body.
C3_FetchErrors ==
    /\ \A j \in 1 .. i :
          Appended(j) =>
              /\ (Fetched(j) /\ ~Succeeded(j)) =>
                    /\ Len(Group(j)) = 1
                    /\ Group(j)[1].AgencyDetected = "Error"
                    /\ Occurs(StatusDigits(outcomes[j].status_code), Group(j)[1].EvidenceType)
              /\ Faulted(j) =>
                    /\ Len(Group(j)) = 1
                    /\ Group(j)[1].AgencyDetected = "Error"
                    /\ Group(j)[1].EvidenceType = outcomes[j].message
              /\ (\E d \in 1 .. Len(detects) : detects[d] = j) <=> Succeeded(j)
    /\ pc = "done" => i = N

\* a 404 and a timeout were followed by a detection
C3_Witness ==
    /\ pc = "done" /\ N = 3
    /\ Fetched(1) /\ outcomes[1].status_code = 404
    /\ Faulted(2) /\ outcomes[2].message # ""
    /\ Succeeded(3) /\ Group(3)[1].AgencyDetected = "Scorpion"
    /\ detects = <<3>>

\* C4: an empty or whitespace-only URL gives the single row Error / "Empty
\* URL", no request and no detection, still advances the progress bar, and
\* the loop goes on.
C4_EmptyUrl ==
    /\ \A j \in 1 .. i :
          AllSpace(urls[j]) =>
              /\ Appended(j) =>
                    Group(j) = << [URL |-> urls[j], AgencyDetected |-> "Error",
                                   EvidenceType |-> "Empty URL"] >>
              /\ Completed(j) => (Len(prog) >= j /\ prog[j] = <<j, N>>)
              /\ \A q \in 1 .. Len(requests) : requests[q][1] # j
              /\ \A d \in 1 .. Len(detects) : detects[d] # j
              /\ outcomes[j].kind = "none"
    /\ pc = "done" => i = N

\* a whitespace-only URL before a fetched one
C4_Witness ==
    /\ pc = "done" /\ N = 2
    /\ urls[1] = " \t" /\ ~AllSpace(urls[2])
    /\ Len(results) = 2 /\ Len(prog) = 2 /\ Len(requests) = 1
    /\ requests[1][1] = 2

\* C5: at most one GET per input URL, none repeated after a failure; when
\* the scan ends the number of requests is the number of URLs that are not
\* empty or whitespace-only.
C5_OneRequestPerUrl ==
    /\ \A p, q \in 1 .. Len(requests) : p < q => requests[p][1] < requests[q][1]
    /\ \A q \in 1 .. Len(requests) :
          /\ requests[q][1] \in 1 .. i
          /\ ~AllSpace(urls[requests[q][1]])
    /\ pc = "done" =>
          Len(requests) = Cardinality({j \in 1 .. N : ~AllSpace(urls[j])})

\* two requests failed, one URL was blank, and two requests were made
C5_Witness ==
    /\ pc = "done" /\ N = 3
    /\ Len(requests) = 2
    /\ \E j \in 1 .. N : Faulted(j)
    /\ \E j \in 1 .. N : Fetched(j) /\ ~Succeeded(j)

\* C6: the k-th call on the progress bar reports (k, N); it comes after the
\* k-th URL's rows and before the (k+1)-th URL is taken up, on every path;
\* the count ends at N.
C6_Progress ==
    /\ \A k \in 1 .. Len(prog) : prog[k] = <<k, N>> /\ k <= N /\ Group(k) # << >>
    /\ Len(prog) = IF pc \in {"for", "done"} THEN i ELSE i - 1
    /\ pc = "done" => Len(prog) = N

\* all four paths in one scan would need four URLs; here three of them
C6_Witness ==
    /\ pc = "done" /\ N = 3
    /\ AllSpace(urls[1]) /\ Faulted(2) /\ Succeeded(3)
    /\ prog = << <<1, 3>>, <<2, 3>>, <<3, 3>> >>

\* C9 as stated: Evidence Type is empty for every NoMatch and every Error row
C9_AsStated ==
    \A k \in 1 .. Len(results) :
        results[k].AgencyDetected \in {"None", "Error"} => results[k].EvidenceType = ""

\* C9 amended: Agency Detected is the agency name, "None" or "Error";
\* Evidence Type is the comma-joined kinds of a detected agency, empty for a
\* "None" row, and the error detail for an "Error" row: "Empty URL",
\* "HTTP <status code>" or the exception's message.
C9_Columns ==
    \A j \in 1 .. i :
        Appended(j) =>
            \A k \in 1 .. Len(Group(j)) :
                LET row == Group(j)[k] IN
                CASE AllSpace(urls[j]) ->
                        row.AgencyDetected = "Error" /\ row.EvidenceType = "Empty URL"
                  [] Faulted(j) ->
                        row.AgencyDetected = "Error" /\ row.EvidenceType = outcomes[j].message
                  [] Fetched(j) /\ ~Succeeded(j) ->
                        /\ row.AgencyDetected = "Error"
                        /\ row.EvidenceType = "HTTP " \o StatusDigits(outcomes[j].status_code)
                  [] Succeeded(j) ->
                        \/ row.AgencyDetected = "None" /\ row.EvidenceType = ""
                        \/ /\ RegistryIndex(row.AgencyDetected) > 0
                           /\ row.EvidenceType \in {"text", "asset, text"}

\* one scan with a "None" row, an "Error" row with its detail and agency rows
C9_Witness ==
    /\ pc = "done" /\ N = 3
    /\ Group(1) = << [URL |-> urls[1], AgencyDetected |-> "None", EvidenceType |-> ""] >>
    /\ Group(2) = << [URL |-> urls[2], AgencyDetected |-> "Error", EvidenceType |-> "HTTP 404"] >>
    /\ Len(Group(3)) = 3 /\ Group(3)[3].EvidenceType = "asset, text"

=============================================================================
